---- MODULE Spec2Model ----
(***************************************************************************)
(* A model of the Everything Search wrapper (everything_search.py): the    *)
(* constructor, the translation of the keyword arguments of                *)
(* EverythingSearch.search into the argument vector of es.exe, the         *)
(* subprocess call and its outcomes, get_result_count, get_version,        *)
(* export_results and the parser of the CSV text es.exe prints; and of the *)
(* tools of the MCP server (mcp_server.py) that wrap these calls.          *)
(*                                                                         *)
(* Representation.  A token of the argument vector is a TLA+ string.  An   *)
(* Optional[...] argument is <<>> for None and <<v>> for the value v.  A   *)
(* text that the code inspects character by character (the standard output *)
(* of es.exe) is a sequence of characters, each a one-character string;    *)
(* the symbols "Size", "size" and "sup2" of the alphabets stand for the    *)
(* words Size and size and for the character U+00B2 (superscript two).     *)
(* A Python value inside a parsed record carries its type as a tag:        *)
(* <<"str", s>>, <<"int", n>>, <<"None">>, <<"list", l>>.                  *)
(***************************************************************************)
EXTENDS Integers, Sequences, FiniteSets, TLC

VARIABLES
    es_path,     \* self.es_path of the EverythingSearch handle
    pc,          \* "new" (no handle yet), "idle", "running" (inside
                 \* subprocess.run), "done"
    op,          \* the method in progress or last completed
    cfg,         \* the keyword arguments of the search() call in progress
    cmd,         \* the local cmd: the argument vector handed to subprocess.run
    overdue,     \* the subprocess has run longer than the timeout of the call
    result,      \* the CompletedProcess of subprocess.run
    csv_output,  \* the argument of _parse_csv_output
    outcome,     \* what the last call gave its caller: a value or an exception
    given,       \* the last constructor call: its es_path argument and what
                 \* os.path.exists answered
    reply        \* what the last tool of the MCP server returned

vars == <<es_path, pc, op, cfg, cmd, overdue, result, csv_output, outcome,
          given, reply>>

(***************************************************************************)
(* Bounds of the model.                                                    *)
(***************************************************************************)
\* search() is called with at most this many arguments that differ from
\* the defaults of its signature.
MaxChanged == 3
\* Longest standard output of es.exe -get-result-count, in characters.
MaxCountLen == 3
\* Longest text given to _parse_csv_output, in characters.
MaxTextLen == 5

(***************************************************************************)
(* Python helpers.                                                         *)
(***************************************************************************)
None == <<>>

Some(v) == <<v>>

\* bool(x) of an Optional[str]: None and "" are false.
Truthy(o) == o # None /\ o[1] # ""

DigitChar(d) ==
    CASE d = 0 -> "0" [] d = 1 -> "1" [] d = 2 -> "2" [] d = 3 -> "3"
      [] d = 4 -> "4" [] d = 5 -> "5" [] d = 6 -> "6" [] d = 7 -> "7"
      [] d = 8 -> "8" [] d = 9 -> "9"

RECURSIVE NatStr(_)
NatStr(n) == IF n < 10 THEN DigitChar(n) ELSE NatStr(n \div 10) \o DigitChar(n % 10)

\* str(n) of an int: the decimal digits, after a minus sign when negative.
Str(n) == IF n < 0 THEN "-" \o NatStr(0 - n) ELSE NatStr(n)

RECURSIVE Count(_, _)
Count(tok, s) ==
    IF s = <<>> THEN 0
    ELSE (IF Head(s) = tok THEN 1 ELSE 0) + Count(tok, Tail(s))

(***************************************************************************)
(* The keyword arguments of search() and the values the model gives them.  *)
(***************************************************************************)
DefaultEsPath == "/mnt/c/Program Files/Everything/es.exe"

DefaultConfig ==
    [query |-> "", regex |-> FALSE, case_sensitive |-> FALSE,
     whole_words |-> FALSE, match_path |-> FALSE, match_diacritics |-> FALSE,
     max_results |-> None, offset |-> 0,
     path_filter |-> None, parent_path |-> None, parent |-> None,
     folders_only |-> FALSE, files_only |-> FALSE,
     attributes |-> None, sort_by |-> None, sort_ascending |-> TRUE,
     include_name |-> TRUE, include_path |-> FALSE,
     include_full_path |-> FALSE, include_extension |-> FALSE,
     include_size |-> FALSE, include_date_created |-> FALSE,
     include_date_modified |-> FALSE, include_date_accessed |-> FALSE,
     include_attributes |-> FALSE, timeout |-> 5000]

Fields == DOMAIN DefaultConfig

\* The values each argument takes in the model (its default among them).
FieldValues ==
    [query |-> {"", "*.txt", "-name"},
     regex |-> BOOLEAN, case_sensitive |-> BOOLEAN, whole_words |-> BOOLEAN,
     match_path |-> BOOLEAN, match_diacritics |-> BOOLEAN,
     max_results |-> {None, Some(0), Some(20)},
     offset |-> {0, 10, -1},
     path_filter |-> {None, Some(""), Some("C:/Users")},
     parent_path |-> {None, Some("C:/Users")},
     parent |-> {None, Some(""), Some("C:/Users")},
     folders_only |-> BOOLEAN, files_only |-> BOOLEAN,
     attributes |-> {None, Some(""), Some("RH"), Some("-d")},
     sort_by |-> {None, Some(""), Some("size")},
     sort_ascending |-> BOOLEAN,
     include_name |-> BOOLEAN, include_path |-> BOOLEAN,
     include_full_path |-> BOOLEAN, include_extension |-> BOOLEAN,
     include_size |-> BOOLEAN, include_date_created |-> BOOLEAN,
     include_date_modified |-> BOOLEAN, include_date_accessed |-> BOOLEAN,
     include_attributes |-> BOOLEAN,
     timeout |-> {5000, 30000}]

\* The arguments of a call that differ from their defaults.
Changed(a) == {f \in Fields : a[f] # DefaultConfig[f]}

EsPaths == {DefaultEsPath, "/custom/path/es.exe"}

\* The es_path arguments a constructor call is given: none, or a path.
ArgPaths == {None, Some("/custom/path/es.exe")}

\* The value of es_path while no handle exists.
NoPath == ""

(***************************************************************************)
(* EverythingSearch.search: the construction of cmd, block by block.       *)
(***************************************************************************)
\* A slip the builder could make: an empty query is dropped.
QueryTokensSkipEmpty(c, a) ==
    IF a.regex THEN c \o <<"-regex", a.query>>
    ELSE IF a.query # "" THEN Append(c, a.query) ELSE c

\* A slip the builder could make: -regex after the query, as export_results has it.
QueryTokensRegexLast(c, a) ==
    IF a.regex THEN c \o <<a.query, "-regex">> ELSE Append(c, a.query)

\* Search options: the query, after -regex in regex mode.
QueryTokens(c, a) ==
    IF a.regex THEN c \o <<"-regex", a.query>> ELSE Append(c, a.query)

\* Search options: the match flags.
MatchFlags(c, a) ==
    LET a1 == IF a.case_sensitive THEN Append(c, "-case") ELSE c
        a2 == IF a.whole_words THEN Append(a1, "-whole-words") ELSE a1
        a3 == IF a.match_path THEN Append(a2, "-match-path") ELSE a2
    IN  IF a.match_diacritics THEN Append(a3, "-diacritics") ELSE a3

\* Limit and offset.
LimitAndOffsetSkipZero(c, a) ==
    LET a1 == IF a.max_results # None /\ a.max_results[1] # 0
              THEN c \o <<"-max-results", Str(a.max_results[1])>> ELSE c
    IN  IF a.offset > 0 THEN a1 \o <<"-offset", Str(a.offset)>> ELSE a1

LimitAndOffset(c, a) ==
    LET a1 == IF a.max_results # None
              THEN c \o <<"-max-results", Str(a.max_results[1])>> ELSE c
    IN  IF a.offset > 0 THEN a1 \o <<"-offset", Str(a.offset)>> ELSE a1

\* Path filters.
PathFilters(c, a) ==
    LET a1 == IF Truthy(a.path_filter) THEN c \o <<"-path", a.path_filter[1]>> ELSE c
        a2 == IF Truthy(a.parent_path)
              THEN a1 \o <<"-parent-path", a.parent_path[1]>> ELSE a1
    IN  IF Truthy(a.parent) THEN a2 \o <<"-parent", a.parent[1]>> ELSE a2

\* A slip the builder could make: two independent tests.
FileTypeFiltersBoth(c, a) ==
    LET a1 == IF a.folders_only THEN Append(c, "/ad") ELSE c
    IN  IF a.files_only THEN Append(a1, "/a-d") ELSE a1

\* File type filters: folders_only is tested first, files_only in its elif.
FileTypeFilters(c, a) ==
    IF a.folders_only THEN Append(c, "/ad")
    ELSE IF a.files_only THEN Append(c, "/a-d")
    ELSE c

\* The DIR style attributes filter.
AttributesFilter(c, a) ==
    IF Truthy(a.attributes) THEN Append(c, "/a" \o a.attributes[1]) ELSE c

\* A builder that ignores sort_ascending.
SortingAlwaysAscending(c, a) ==
    IF Truthy(a.sort_by) THEN c \o <<"-sort", a.sort_by[1] \o "-ascending">> ELSE c

\* Sorting.
Sorting(c, a) ==
    IF Truthy(a.sort_by)
    THEN LET sort_order == IF a.sort_ascending THEN "ascending" ELSE "descending"
         IN  c \o <<"-sort", a.sort_by[1] \o "-" \o sort_order>>
    ELSE c

\* A slip the builder could make: -date-modified for include_date_accessed.
DisplayOptionsWrongToken(c, a) ==
    LET a1 == IF a.include_name THEN Append(c, "-name") ELSE c
        a2 == IF a.include_path THEN Append(a1, "-path-column") ELSE a1
        a3 == IF a.include_full_path THEN Append(a2, "-full-path-and-name") ELSE a2
        a4 == IF a.include_extension THEN Append(a3, "-extension") ELSE a3
        a5 == IF a.include_size THEN Append(a4, "-size") ELSE a4
        a6 == IF a.include_date_created THEN Append(a5, "-date-created") ELSE a5
        a7 == IF a.include_date_modified THEN Append(a6, "-date-modified") ELSE a6
        a8 == IF a.include_date_accessed THEN Append(a7, "-date-modified") ELSE a7
    IN  IF a.include_attributes THEN Append(a8, "-attributes") ELSE a8

\* Display options.
DisplayOptions(c, a) ==
    LET a1 == IF a.include_name THEN Append(c, "-name") ELSE c
        a2 == IF a.include_path THEN Append(a1, "-path-column") ELSE a1
        a3 == IF a.include_full_path THEN Append(a2, "-full-path-and-name") ELSE a2
        a4 == IF a.include_extension THEN Append(a3, "-extension") ELSE a3
        a5 == IF a.include_size THEN Append(a4, "-size") ELSE a4
        a6 == IF a.include_date_created THEN Append(a5, "-date-created") ELSE a5
        a7 == IF a.include_date_modified THEN Append(a6, "-date-modified") ELSE a6
        a8 == IF a.include_date_accessed THEN Append(a7, "-date-accessed") ELSE a7
    IN  IF a.include_attributes THEN Append(a8, "-attributes") ELSE a8

\* A slip the builder could make: the default timeout instead of the argument.
OutputFormatDefaultTimeout(c, a) == Append(c, "-csv") \o <<"-timeout", "5000">>

\* Output format.
OutputFormat(c, a) == Append(c, "-csv") \o <<"-timeout", Str(a.timeout)>>

\* A slip the builder could make: the sort pair before the attributes filter.
SearchCmdSortFirst(path, a) ==
    OutputFormat(DisplayOptions(AttributesFilter(Sorting(FileTypeFilters(
        PathFilters(LimitAndOffset(MatchFlags(QueryTokens(<<path>>, a), a), a), a),
        a), a), a), a), a)

\* cmd as search() hands it to subprocess.run.
SearchCmd(path, a) ==
    OutputFormat(DisplayOptions(Sorting(AttributesFilter(FileTypeFilters(
        PathFilters(LimitAndOffset(MatchFlags(QueryTokens(<<path>>, a), a), a), a),
        a), a), a), a), a)

(***************************************************************************)
(* Texts: the standard output of es.exe as a sequence of characters.       *)
(***************************************************************************)
\* The characters str.strip() removes that a text of the model can hold.
Whitespace == {" ", "\n", "\t"}

\* The characters of str.isdigit(): the decimal digits, and digits such as
\* U+00B2 that int() does not take.
DecimalDigits == {"0", "1", "2", "3", "4", "5", "6", "7", "8", "9"}

OtherDigits == {"sup2"}

DigitValue(ch) ==
    CASE ch = "0" -> 0 [] ch = "1" -> 1 [] ch = "2" -> 2 [] ch = "3" -> 3
      [] ch = "4" -> 4 [] ch = "5" -> 5 [] ch = "6" -> 6 [] ch = "7" -> 7
      [] ch = "8" -> 8 [] ch = "9" -> 9

RECURSIVE LStrip(_)
LStrip(s) == IF s # <<>> /\ Head(s) \in Whitespace THEN LStrip(Tail(s)) ELSE s

RECURSIVE RStrip(_)
RStrip(s) ==
    IF s # <<>> /\ s[Len(s)] \in Whitespace THEN RStrip(SubSeq(s, 1, Len(s) - 1)) ELSE s

\* str.strip()
Strip(s) == RStrip(LStrip(s))

\* str.split("\n"): the pieces between the line feeds, empty pieces kept.
RECURSIVE SplitLines(_, _)
SplitLines(s, piece) ==
    IF s = <<>> THEN <<piece>>
    ELSE IF Head(s) = "\n" THEN <<piece>> \o SplitLines(Tail(s), <<>>)
    ELSE SplitLines(Tail(s), Append(piece, Head(s)))

\* str.isdigit(): not empty and every character a digit.
IsDigit(s) == s # <<>> /\ \A i \in 1..Len(s) : s[i] \in DecimalDigits \cup OtherDigits

\* The value of a string of decimal digits.
RECURSIVE DecimalValue(_)
DecimalValue(s) ==
    IF s = <<>> THEN 0
    ELSE 10 * DecimalValue(SubSeq(s, 1, Len(s) - 1)) + DigitValue(s[Len(s)])

(***************************************************************************)
(* Python values inside a parsed record.                                   *)
(***************************************************************************)
StrVal(s) == <<"str", s>>

IntVal(n) == <<"int", n>>

NoneVal == <<"None">>

ListVal(l) == <<"list", l>>

Return(v) == [kind |-> "return", value |-> v]

Raise(e, m) == [kind |-> "raise", exc |-> e, message |-> m]

(***************************************************************************)
(* csv.reader over a list of lines, in the default (excel) dialect:        *)
(* delimiter ",", quotechar '"', doublequote, not strict.  The lines hold  *)
(* no line feed (split removed them) and, in the model, no carriage        *)
(* return.                                                                 *)
(***************************************************************************)
EOL == "EOL"

ReaderStart == [state |-> "START_RECORD", field |-> <<>>, fields |-> <<>>, rows |-> <<>>]

SaveField(r) == [r EXCEPT !.fields = Append(r.fields, r.field), !.field = <<>>]

AddChar(r, c) == [r EXCEPT !.field = Append(r.field, c)]

\* parse_process_char
ParseProcessChar(r, c) ==
    CASE r.state = "START_RECORD" /\ c = EOL -> r
      [] r.state \in {"START_RECORD", "START_FIELD"} /\ c # EOL ->
            IF c = "\"" THEN [r EXCEPT !.state = "IN_QUOTED_FIELD"]
            ELSE IF c = "," THEN [SaveField(r) EXCEPT !.state = "START_FIELD"]
            ELSE [AddChar(r, c) EXCEPT !.state = "IN_FIELD"]
      [] r.state = "START_FIELD" /\ c = EOL ->
            [SaveField(r) EXCEPT !.state = "START_RECORD"]
      [] r.state = "IN_FIELD" ->
            IF c = EOL THEN [SaveField(r) EXCEPT !.state = "START_RECORD"]
            ELSE IF c = "," THEN [SaveField(r) EXCEPT !.state = "START_FIELD"]
            ELSE AddChar(r, c)
      [] r.state = "IN_QUOTED_FIELD" ->
            IF c = EOL THEN r
            ELSE IF c = "\"" THEN [r EXCEPT !.state = "QUOTE_IN_QUOTED_FIELD"]
            ELSE AddChar(r, c)
      [] r.state = "QUOTE_IN_QUOTED_FIELD" ->
            IF c = "\"" THEN [AddChar(r, c) EXCEPT !.state = "IN_QUOTED_FIELD"]
            ELSE IF c = "," THEN [SaveField(r) EXCEPT !.state = "START_FIELD"]
            ELSE IF c = EOL THEN [SaveField(r) EXCEPT !.state = "START_RECORD"]
            ELSE [AddChar(r, c) EXCEPT !.state = "IN_FIELD"]

\* The characters the reader is fed: each line, then the end of the line.
RECURSIVE LineStream(_)
LineStream(lines) ==
    IF lines = <<>> THEN <<>>
    ELSE Append(Head(lines), EOL) \o LineStream(Tail(lines))

\* Reader_iternext, repeated to the end of the input: the rows read.  A row
\* ends when an end of line leaves the reader in START_RECORD; the end of
\* the input inside a quoted field, or with a field begun, ends the row.
RECURSIVE ReadRows(_, _)
ReadRows(stream, r) ==
    IF stream = <<>>
    THEN IF r.field # <<>> \/ r.state = "IN_QUOTED_FIELD"
         THEN Append(r.rows, SaveField(r).fields)
         ELSE r.rows
    ELSE LET r2 == ParseProcessChar(r, Head(stream))
         IN  IF Head(stream) = EOL /\ r2.state = "START_RECORD"
             THEN ReadRows(Tail(stream),
                           [ReaderStart EXCEPT !.rows = Append(r2.rows, r2.fields)])
             ELSE ReadRows(Tail(stream), r2)

CsvReader(lines) == ReadRows(LineStream(lines), ReaderStart)

(***************************************************************************)
(* csv.DictReader: the first row names the columns; every later row that   *)
(* is not empty becomes a dict.                                            *)
(***************************************************************************)
\* DictReader.__next__ for one row: dict(zip(fieldnames, row)), then the
\* fields beyond the header under the key None (restkey), or None (restval)
\* for the columns the row does not reach.
RowDict(fieldnames, row) ==
    LET lf == Len(fieldnames)
        lr == Len(row)
        n  == IF lf < lr THEN lf ELSE lr
        keys == {StrVal(fieldnames[i]) : i \in 1..lf}
                  \cup (IF lf < lr THEN {NoneVal} ELSE {})
        Last(f) == CHOOSE i \in 1..n :
                      /\ fieldnames[i] = f
                      /\ \A j \in (i + 1)..n : fieldnames[j] # f
    IN  [k \in keys |->
            IF k = NoneVal THEN ListVal(SubSeq(row, lf + 1, lr))
            ELSE IF \E i \in (lr + 1)..lf : fieldnames[i] = k[2] THEN NoneVal
            ELSE StrVal(row[Last(k[2])])]

\* The rows DictReader yields: blank rows are skipped.
RECURSIVE DictRows(_, _)
DictRows(fieldnames, rows) ==
    IF rows = <<>> THEN <<>>
    ELSE IF Head(rows) = <<>> THEN DictRows(fieldnames, Tail(rows))
    ELSE <<RowDict(fieldnames, Head(rows))>> \o DictRows(fieldnames, Tail(rows))

DictReader(lines) ==
    LET rows == CsvReader(lines)
    IN  IF rows = <<>> THEN <<>> ELSE DictRows(Head(rows), Tail(rows))

(***************************************************************************)
(* EverythingSearch._parse_csv_output                                      *)
(***************************************************************************)
SizeKey == StrVal(<<"Size">>)

\* A conversion that matches the column name without regard to case.
ConvertSizeAnyCase(row) ==
    LET k == IF SizeKey \in DOMAIN row THEN SizeKey ELSE StrVal(<<"size">>)
    IN  IF k \notin DOMAIN row THEN Return(row)
        ELSE IF row[k] = NoneVal
             THEN Raise("AttributeError", <<"'NoneType' object has no attribute 'isdigit'">>)
        ELSE IF ~IsDigit(row[k][2]) THEN Return(row)
        ELSE IF \E i \in 1..Len(row[k][2]) : row[k][2][i] \notin DecimalDigits
             THEN Raise("ValueError", <<"invalid literal for int() with base 10: ">>)
        ELSE Return([row EXCEPT ![k] = IntVal(DecimalValue(row[k][2]))])

\* The body of the loop for one row: the row converted, or the exception
\* the conversion raises.
ConvertSize(row) ==
    IF SizeKey \notin DOMAIN row THEN Return(row)
    ELSE IF row[SizeKey] = NoneVal
         THEN Raise("AttributeError", <<"'NoneType' object has no attribute 'isdigit'">>)
    ELSE IF ~IsDigit(row[SizeKey][2]) THEN Return(row)
    ELSE IF \E i \in 1..Len(row[SizeKey][2]) : row[SizeKey][2][i] \notin DecimalDigits
         THEN Raise("ValueError", <<"invalid literal for int() with base 10: ">>)
    ELSE Return([row EXCEPT ![SizeKey] = IntVal(DecimalValue(row[SizeKey][2]))])

\* The loop over the rows: the first exception ends it.
RECURSIVE ConvertRows(_, _)
ConvertRows(rows, results) ==
    IF rows = <<>> THEN Return(results)
    ELSE LET r == ConvertSize(Head(rows))
         IN  IF r.kind = "raise" THEN r
             ELSE ConvertRows(Tail(rows), Append(results, r.value))

\* A parser that splits the output as it came, without trimming it.
parse_csv_outputNoStrip(text) ==
    IF text = <<>> THEN Return(<<>>)
    ELSE LET lines == SplitLines(text, <<>>)
         IN  IF Len(lines) < 2 THEN Return(<<>>)
             ELSE ConvertRows(DictReader(lines), <<>>)

parse_csv_output(text) ==
    IF Strip(text) = <<>> THEN Return(<<>>)
    ELSE LET lines == SplitLines(Strip(text), <<>>)
         IN  IF Len(lines) < 2 THEN Return(<<>>)
             ELSE ConvertRows(DictReader(lines), <<>>)

(***************************************************************************)
(* int(s) of a str, as get_result_count uses it: an optional sign, then    *)
(* decimal digits, single underscores allowed between digits.              *)
(***************************************************************************)
Unsigned(s) == IF s # <<>> /\ Head(s) \in {"+", "-"} THEN Tail(s) ELSE s

RECURSIVE WithoutUnderscores(_)
WithoutUnderscores(s) ==
    IF s = <<>> THEN <<>>
    ELSE IF Head(s) = "_" THEN WithoutUnderscores(Tail(s))
    ELSE <<Head(s)>> \o WithoutUnderscores(Tail(s))

\* int(s) does not raise ValueError.
IntParsable(s) ==
    LET b == Unsigned(Strip(s))
    IN  /\ b # <<>>
        /\ \A i \in 1..Len(b) : b[i] \in DecimalDigits \cup {"_"}
        /\ b[1] # "_" /\ b[Len(b)] # "_"
        /\ \A i \in 1..(Len(b) - 1) : ~(b[i] = "_" /\ b[i + 1] = "_")

IntOf(s) ==
    LET t == Strip(s)
        v == DecimalValue(WithoutUnderscores(Unsigned(t)))
    IN  IF Head(t) = "-" THEN 0 - v ELSE v

(***************************************************************************)
(* The answers of the subprocess in the model.                             *)
(***************************************************************************)
ReturnCodes == {0, 1}

StderrSamples == {"", "Error 8: Everything IPC window not found"}

\* Standard output of a search: nothing, one row, a row with a Size, and a
\* row shorter than a header that names Size.
StdoutSamples ==
    {<<>>, <<"a", "\n", "a">>, <<"Size", "\n", "7">>, <<"a", ",", "Size", "\n", "a">>}

CountAlphabet == {"4", "0", " ", "\n", "-", "_", "x"}

CountTexts == UNION {[1..n -> CountAlphabet] : n \in 0..MaxCountLen}

Queries == FieldValues.query

Alphabet == {",", "\n", " ", "\"", "7", "a", "Size", "size", "sup2"}

Texts == UNION {[1..n -> Alphabet] : n \in 0..MaxTextLen}

NoResult == [returncode |-> 0, stdout |-> <<>>, stderr |-> ""]

CompletedProcess(rc, out, err) == [returncode |-> rc, stdout |-> out, stderr |-> err]

NoOutcome == [kind |-> "none"]

\* No tool of the MCP server has returned.
NoReply == <<>>

\* str(e) of the OSError subprocess.run raises when it cannot start es.exe.
OSErrorText == "[Errno 8] Exec format error"

(***************************************************************************)
(* EverythingSearch.search after subprocess.run: the try block and its     *)
(* handlers.  The RuntimeError raised for a non-zero exit is raised inside *)
(* the try and is caught by "except Exception", which raises a second      *)
(* RuntimeError around its text; so is whatever the parser raises.         *)
(* subprocess.run is given no timeout, so it never raises TimeoutExpired.  *)
(***************************************************************************)
\* A slip search() could make: the exit code is not looked at, only stderr.
SearchOutcomeTestsStderr(res) ==
    LET inner == IF res.stderr # ""
                 THEN Raise("RuntimeError", <<"Everything Search failed: ", res.stderr>>)
                 ELSE parse_csv_output(res.stdout)
    IN  IF inner.kind = "raise"
        THEN Raise("RuntimeError", <<"Error executing search: ">> \o inner.message)
        ELSE inner

SearchOutcome(res) ==
    LET inner == IF res.returncode # 0
                 THEN Raise("RuntimeError", <<"Everything Search failed: ", res.stderr>>)
                 ELSE parse_csv_output(res.stdout)
    IN  IF inner.kind = "raise"
        THEN Raise("RuntimeError", <<"Error executing search: ">> \o inner.message)
        ELSE inner

\* search() when subprocess.run itself raises.
SearchRunError(text) == Raise("RuntimeError", <<"Error executing search: ", text>>)

(***************************************************************************)
(* EverythingSearch.get_result_count after subprocess.run.                 *)
(***************************************************************************)
\* A slip get_result_count() could make: int() outside the try block.
GetResultCountUncaught(res) ==
    IF res.returncode = 0
    THEN IF IntParsable(res.stdout) THEN Return(IntOf(res.stdout))
         ELSE Raise("ValueError", <<"invalid literal for int() with base 10: ">>)
    ELSE Return(0)

GetResultCountOutcome(res) ==
    IF res.returncode = 0
    THEN IF IntParsable(res.stdout) THEN Return(IntOf(res.stdout))
         ELSE Return(0)    \* ValueError, caught by "except Exception"
    ELSE Return(0)

(***************************************************************************)
(* EverythingSearch(es_path): __init__ stores the path and raises          *)
(* FileNotFoundError when os.path.exists denies it.  arg is the es_path    *)
(* argument of the call (None: the default of the signature), exists is    *)
(* the answer of os.path.exists.  The value returned stands for the        *)
(* handle: its es_path.                                                    *)
(***************************************************************************)
\* A constructor that does not look at the file system.
EverythingSearchUnchecked(arg, exists) ==
    Return(IF arg = None THEN DefaultEsPath ELSE arg[1])

EverythingSearch(arg, exists) ==
    LET self_es_path == IF arg = None THEN DefaultEsPath ELSE arg[1]
    IN  IF ~exists
        THEN Raise("FileNotFoundError",
                   <<"Everything Search executable not found at: ", self_es_path>>)
        ELSE Return(self_es_path)

(***************************************************************************)
(* EverythingSearch.get_version after subprocess.run: the exit code is not *)
(* looked at.                                                              *)
(***************************************************************************)
GetVersionOutcome(res) == Return(Strip(res.stdout))

GetVersionRunError(text) == Raise("RuntimeError", <<"Error getting version: ", text>>)

(***************************************************************************)
(* EverythingSearch.export_results: the argument vector, and the try block *)
(* after subprocess.run.  The RuntimeError for a non-zero exit is raised   *)
(* inside the try and wrapped by "except Exception".                       *)
(***************************************************************************)
\* The arguments of export_results: query, output_file, format and the
\* keyword arguments it reads.
ExportFormats == {"csv", "txt"}

OutputFiles == {"/tmp/output.csv"}

ExportArgs ==
    [query : Queries, output_file : OutputFiles, format : ExportFormats,
     regex : BOOLEAN, case_sensitive : BOOLEAN,
     max_results : FieldValues.max_results]

ExportCmd(path, a) ==
    LET c0 == <<path, a.query, "-export-" \o a.format, a.output_file>>
        c1 == IF a.regex THEN Append(c0, "-regex") ELSE c0
        c2 == IF a.case_sensitive THEN Append(c1, "-case") ELSE c1
    IN  IF a.max_results # None /\ a.max_results[1] # 0
        THEN c2 \o <<"-max-results", Str(a.max_results[1])>> ELSE c2

\* An export that does not look at the exit code.
ExportOutcomeIgnoresExit(res) == Return(NoneVal)

ExportOutcome(res) ==
    IF res.returncode # 0
    THEN Raise("RuntimeError",
               <<"Error exporting results: ", "Export failed: ", res.stderr>>)
    ELSE Return(NoneVal)

ExportRunError(text) == Raise("RuntimeError", <<"Error exporting results: ", text>>)

\* Standard output of es.exe -version.
VersionSamples == {<<>>, <<"1", ".", "1", "\n">>}

Init ==
    /\ es_path \in EsPaths
    /\ pc = "idle"
    /\ op = "none"
    /\ cfg = DefaultConfig
    /\ cmd = <<>>
    /\ overdue = FALSE
    /\ result = NoResult
    /\ csv_output = <<>>
    /\ outcome = NoOutcome
    /\ given = Some([arg |-> IF es_path = DefaultEsPath THEN None ELSE Some(es_path),
                     exists |-> TRUE])
    /\ reply = NoReply

\* A call enters subprocess.run with the cmd it built.
Enter(method, a, c) ==
    /\ pc' = "running"
    /\ op' = method
    /\ cfg' = a
    /\ cmd' = c
    /\ overdue' = FALSE
    /\ result' = NoResult
    /\ csv_output' = <<>>
    /\ outcome' = NoOutcome
    /\ UNCHANGED <<es_path, given, reply>>

\* A call that, when it fails, puts the handle back on the default path.
LeaveResetsPath(res, text, o) ==
    /\ pc' = "done"
    /\ cfg' = DefaultConfig
    /\ cmd' = <<>>
    /\ result' = res
    /\ csv_output' = text
    /\ outcome' = o
    /\ es_path' = IF o.kind = "raise" THEN DefaultEsPath ELSE es_path
    /\ UNCHANGED <<op, overdue, given, reply>>

\* A call ends: its locals are gone, its caller holds the outcome.
Leave(res, text, o) ==
    /\ pc' = "done"
    /\ cfg' = DefaultConfig
    /\ cmd' = <<>>
    /\ result' = res
    /\ csv_output' = text
    /\ outcome' = o
    /\ UNCHANGED <<es_path, op, overdue, given, reply>>

\* The caller of search() gives argument f the value v in place of its
\* default; the call binds the arguments of its signature this way.
Bind ==
    /\ pc = "idle"
    /\ \E f \in Fields :
          /\ f \in Changed(cfg) \/ Cardinality(Changed(cfg)) < MaxChanged
          /\ \E v \in FieldValues[f] : cfg' = [cfg EXCEPT ![f] = v]
    /\ UNCHANGED <<es_path, pc, op, cmd, overdue, result, csv_output, outcome,
                   given, reply>>

\* search(**cfg) up to its call of subprocess.run.
Search ==
    /\ pc = "idle"
    /\ Enter("search", cfg, SearchCmd(es_path, cfg))

\* The timeout of the search passes while es.exe is still running.  The
\* call of subprocess.run passes no timeout, so nothing happens in search():
\* it stays blocked in subprocess.run.
DeadlinePasses ==
    /\ pc = "running"
    /\ op = "search"
    /\ ~overdue
    /\ overdue' = TRUE
    /\ UNCHANGED <<es_path, pc, op, cfg, cmd, result, csv_output, outcome,
                   given, reply>>

\* es.exe exits and search() handles what subprocess.run returns.
SearchExit ==
    /\ pc = "running"
    /\ op = "search"
    /\ \E rc \in ReturnCodes, out \in StdoutSamples, err \in StderrSamples :
          LET res == CompletedProcess(rc, out, err)
          IN  Leave(res, IF rc = 0 THEN out ELSE <<>>, SearchOutcome(res))

\* subprocess.run raises in search(): es.exe could not be started.
SearchRunRaises ==
    /\ pc = "running"
    /\ op = "search"
    /\ ~overdue
    /\ Leave(NoResult, <<>>, SearchRunError(OSErrorText))

\* get_result_count(query) up to its call of subprocess.run.
GetResultCount ==
    /\ pc = "idle"
    /\ cfg = DefaultConfig
    /\ \E q \in Queries :
          Enter("get_result_count", DefaultConfig, <<es_path, "-get-result-count", q>>)

\* es.exe exits and get_result_count() handles what subprocess.run returns.
CountExit ==
    /\ pc = "running"
    /\ op = "get_result_count"
    /\ \E rc \in ReturnCodes, out \in CountTexts, err \in StderrSamples :
          LET res == CompletedProcess(rc, out, err)
          IN  Leave(res, <<>>, GetResultCountOutcome(res))

\* subprocess.run raises in get_result_count(): "except Exception" returns 0.
CountRunRaises ==
    /\ pc = "running"
    /\ op = "get_result_count"
    /\ Leave(NoResult, <<>>, Return(0))

\* get_version() up to its call of subprocess.run.
GetVersion ==
    /\ pc = "idle"
    /\ cfg = DefaultConfig
    /\ Enter("get_version", DefaultConfig, <<es_path, "-version">>)

\* es.exe exits and get_version() returns its standard output, stripped.
VersionExit ==
    /\ pc = "running"
    /\ op = "get_version"
    /\ \E rc \in ReturnCodes, out \in VersionSamples, err \in StderrSamples :
          LET res == CompletedProcess(rc, out, err)
          IN  Leave(res, <<>>, GetVersionOutcome(res))

\* subprocess.run raises in get_version().
VersionRunRaises ==
    /\ pc = "running"
    /\ op = "get_version"
    /\ Leave(NoResult, <<>>, GetVersionRunError(OSErrorText))

\* export_results(query, output_file, format, **kwargs) up to its call of
\* subprocess.run.
ExportResults ==
    /\ pc = "idle"
    /\ cfg = DefaultConfig
    /\ \E a \in ExportArgs : Enter("export_results", a, ExportCmd(es_path, a))

\* es.exe exits and export_results() handles what subprocess.run returns.
ExportExit ==
    /\ pc = "running"
    /\ op = "export_results"
    /\ \E rc \in ReturnCodes, err \in StderrSamples :
          LET res == CompletedProcess(rc, <<>>, err)
          IN  Leave(res, <<>>, ExportOutcome(res))

\* subprocess.run raises in export_results().
ExportRunRaises ==
    /\ pc = "running"
    /\ op = "export_results"
    /\ Leave(NoResult, <<>>, ExportRunError(OSErrorText))

\* The outcome of the call passes to the caller, who may call again.
Resume ==
    /\ pc = "done"
    /\ pc' = "idle"
    /\ op' = "none"
    /\ overdue' = FALSE
    /\ result' = NoResult
    /\ csv_output' = <<>>
    /\ outcome' = NoOutcome
    /\ UNCHANGED <<es_path, cfg, cmd, given, reply>>

Next ==
    \/ Bind
    \/ Search
    \/ DeadlinePasses
    \/ SearchExit
    \/ SearchRunRaises
    \/ GetResultCount
    \/ CountExit
    \/ CountRunRaises
    \/ GetVersion
    \/ VersionExit
    \/ VersionRunRaises
    \/ ExportResults
    \/ ExportExit
    \/ ExportRunRaises
    \/ Resume

Spec == Init /\ [][Next]_vars

(***************************************************************************)
(* The program from before the handle exists: constructor calls, then the  *)
(* calls on the handle.                                                    *)
(***************************************************************************)
InitNew ==
    /\ es_path = NoPath
    /\ pc = "new"
    /\ op = "none"
    /\ cfg = DefaultConfig
    /\ cmd = <<>>
    /\ overdue = FALSE
    /\ result = NoResult
    /\ csv_output = <<>>
    /\ outcome = NoOutcome
    /\ given = None
    /\ reply = NoReply

\* EverythingSearch(arg) is called.  When __init__ raises, the caller gets
\* the exception and no handle: the object whose es_path was assigned is
\* bound to no name.
Construct ==
    /\ pc = "new"
    /\ \E arg \in ArgPaths, exists \in BOOLEAN :
          LET o == EverythingSearch(arg, exists)
          IN  /\ given' = Some([arg |-> arg, exists |-> exists])
              /\ IF o.kind = "return"
                 THEN /\ es_path' = o.value
                      /\ pc' = "idle"
                      /\ op' = "none"
                      /\ outcome' = NoOutcome
                 ELSE /\ es_path' = NoPath
                      /\ pc' = "new"
                      /\ op' = "__init__"
                      /\ outcome' = o
    /\ UNCHANGED <<cfg, cmd, overdue, result, csv_output, reply>>

NextNew ==
    \/ Construct
    \/ Next

SpecNew == InitNew /\ [][NextNew]_vars

(***************************************************************************)
(* The convenience methods.  Each one calls search() with its own keyword  *)
(* arguments beside **kwargs; kwargs is a function from argument names to  *)
(* values.  The value returned here is the call of search() the method     *)
(* makes: the arguments bound, or the TypeError Python raises when a       *)
(* keyword is passed twice.                                                *)
(***************************************************************************)
\* search(query, **kwargs): the arguments of the signature, bound.
SearchCall(query, kwargs) ==
    IF "query" \in DOMAIN kwargs
    THEN Raise("TypeError", <<"got multiple values for argument ", "query">>)
    ELSE Return([f \in Fields |->
                    IF f = "query" THEN query
                    ELSE IF f \in DOMAIN kwargs THEN kwargs[f]
                    ELSE DefaultConfig[f]])

search_files(query, kwargs) ==
    IF "files_only" \in DOMAIN kwargs
    THEN Raise("TypeError", <<"got multiple values for keyword argument ", "files_only">>)
    ELSE SearchCall(query, [files_only |-> TRUE] @@ kwargs)

search_folders(query, kwargs) ==
    IF "folders_only" \in DOMAIN kwargs
    THEN Raise("TypeError", <<"got multiple values for keyword argument ", "folders_only">>)
    ELSE SearchCall(query, [folders_only |-> TRUE] @@ kwargs)

search_by_extension(extension, kwargs) ==
    search_files("ext:" \o extension, kwargs)

\* kwargs.setdefault("include_size", True), then as search_files.
search_by_size(size_filter, kwargs) ==
    search_files("size:" \o size_filter, kwargs @@ [include_size |-> TRUE])

\* kwargs.setdefault("include_date_modified", True), then search().
search_recent(days, kwargs) ==
    SearchCall("datemodified:last" \o Str(days) \o "days",
               kwargs @@ [include_date_modified |-> TRUE])

\* The extra options a caller forwards to a convenience method: every
\* choice of values for every subset of these argument names.
KwargNames == {"folders_only", "files_only", "attributes", "include_size"}

RECURSIVE KwargsOver(_)
KwargsOver(names) ==
    IF names = {} THEN {[f \in {} |-> TRUE]}
    ELSE LET f == CHOOSE g \in names : TRUE
             rest == KwargsOver(names \ {f})
         IN  rest \cup {(f :> v) @@ k : v \in FieldValues[f], k \in rest}

Kwargs == KwargsOver(KwargNames)

Wrappers ==
    {"search_files", "search_folders", "search_by_extension", "search_by_size",
     "search_recent"}

\* A convenience method up to subprocess.run inside search(), or to the
\* TypeError of its call of search().
WrapperEnter(method, call) ==
    IF call.kind = "raise"
    THEN /\ pc' = "done"
         /\ op' = method
         /\ cfg' = DefaultConfig
         /\ cmd' = <<>>
         /\ overdue' = FALSE
         /\ result' = NoResult
         /\ csv_output' = <<>>
         /\ outcome' = call
         /\ UNCHANGED <<es_path, given, reply>>
    ELSE Enter(method, call.value, SearchCmd(es_path, call.value))

SearchFiles ==
    /\ pc = "idle"
    /\ \E q \in Queries, kwargs \in Kwargs :
          WrapperEnter("search_files", search_files(q, kwargs))

SearchFolders ==
    /\ pc = "idle"
    /\ \E q \in Queries, kwargs \in Kwargs :
          WrapperEnter("search_folders", search_folders(q, kwargs))

SearchByExtension ==
    /\ pc = "idle"
    /\ \E extension \in {"py", "txt"}, kwargs \in Kwargs :
          WrapperEnter("search_by_extension", search_by_extension(extension, kwargs))

SearchBySize ==
    /\ pc = "idle"
    /\ \E kwargs \in Kwargs :
          WrapperEnter("search_by_size", search_by_size(">1MB", kwargs))

SearchRecent ==
    /\ pc = "idle"
    /\ \E days \in {0, 7}, kwargs \in Kwargs :
          WrapperEnter("search_recent", search_recent(days, kwargs))

\* es.exe exits inside the search() a convenience method called.
WrapperExit ==
    /\ pc = "running"
    /\ op \in Wrappers
    /\ \E rc \in ReturnCodes, out \in StdoutSamples, err \in StderrSamples :
          LET res == CompletedProcess(rc, out, err)
          IN  Leave(res, IF rc = 0 THEN out ELSE <<>>, SearchOutcome(res))

WrapperRunRaises ==
    /\ pc = "running"
    /\ op \in Wrappers
    /\ Leave(NoResult, <<>>, SearchRunError(OSErrorText))

NextWrappers ==
    \/ SearchFiles
    \/ SearchFolders
    \/ SearchByExtension
    \/ SearchBySize
    \/ SearchRecent
    \/ WrapperExit
    \/ WrapperRunRaises
    \/ Resume

SpecWrappers == Init /\ [][NextWrappers]_vars

(***************************************************************************)
(* mcp_server.py.  The module keeps one handle, es_instance, created by    *)
(* the first tool that needs it; here es_path = NoPath means es_instance   *)
(* is None.  Every tool runs its call inside try ... except Exception and  *)
(* returns json.dumps of the result or of {"error": str(e)}.               *)
(***************************************************************************)
\* A get_everything_search() that constructs a handle on every call.
get_everything_searchAlwaysConstructs(es_instance, exists) ==
    EverythingSearch(None, exists)

\* get_everything_search(): the handle, created with the default path when
\* there is none yet.
get_everything_search(es_instance, exists) ==
    IF es_instance = NoPath THEN EverythingSearch(None, exists)
    ELSE Return(es_instance)

\* The arguments the tools are called with: samples of their signatures.
ToolTexts == {"", "txt"}

SearchFilesArgs ==
    [query : ToolTexts, max_results : {0, 20}, regex : BOOLEAN,
     case_sensitive : {FALSE}, include_size : BOOLEAN,
     include_date_modified : {TRUE}, sort_by : {"name", ""}, timeout : {30000}]

SearchFoldersArgs ==
    [query : ToolTexts, max_results : {0, 20}, regex : BOOLEAN,
     case_sensitive : BOOLEAN, sort_by : {"name"}, timeout : {5000, 30000}]

SearchByExtensionArgs ==
    [extension : ToolTexts, max_results : {20}, include_size : BOOLEAN,
     include_date_modified : BOOLEAN, sort_by : {"name", "size"}]

SearchBySizeArgs ==
    [size_filter : {">1MB"}, max_results : {0, 20}, include_date_modified : BOOLEAN,
     sort_by : {"size"}, sort_ascending : BOOLEAN]

SearchRecentFilesArgs ==
    [days : {0, 7}, max_results : {20}, include_size : BOOLEAN,
     sort_by : {"date-modified"}, sort_ascending : BOOLEAN]

AdvancedSearchArgs ==
    [query : ToolTexts, max_results : {20}, regex : BOOLEAN,
     case_sensitive : {FALSE}, whole_words : {FALSE}, match_path : BOOLEAN,
     files_only : BOOLEAN, folders_only : BOOLEAN,
     path_filter : {None, Some("C:/Users")}, include_size : {TRUE},
     include_extension : BOOLEAN, include_date_modified : {TRUE},
     sort_by : {"name"}, sort_ascending : BOOLEAN, timeout : {30000}]

\* The call each search tool makes on the handle.
SearchFilesTool(p) ==
    search_files(p.query,
        [max_results |-> Some(p.max_results), regex |-> p.regex,
         case_sensitive |-> p.case_sensitive, include_size |-> p.include_size,
         include_date_modified |-> p.include_date_modified,
         include_full_path |-> TRUE, sort_by |-> Some(p.sort_by),
         timeout |-> p.timeout])

SearchFoldersTool(p) ==
    search_folders(p.query,
        [max_results |-> Some(p.max_results), regex |-> p.regex,
         case_sensitive |-> p.case_sensitive, include_full_path |-> TRUE,
         sort_by |-> Some(p.sort_by), timeout |-> p.timeout])

SearchByExtensionTool(p) ==
    search_by_extension(p.extension,
        [max_results |-> Some(p.max_results), include_size |-> p.include_size,
         include_date_modified |-> p.include_date_modified,
         include_full_path |-> TRUE, sort_by |-> Some(p.sort_by)])

SearchBySizeTool(p) ==
    search_by_size(p.size_filter,
        [max_results |-> Some(p.max_results), include_size |-> TRUE,
         include_date_modified |-> p.include_date_modified,
         include_full_path |-> TRUE, sort_by |-> Some(p.sort_by),
         sort_ascending |-> p.sort_ascending])

SearchRecentFilesTool(p) ==
    search_recent(p.days,
        [max_results |-> Some(p.max_results), include_size |-> p.include_size,
         include_date_modified |-> TRUE, include_full_path |-> TRUE,
         sort_by |-> Some(p.sort_by), sort_ascending |-> p.sort_ascending])

AdvancedSearchTool(p) ==
    SearchCall(p.query,
        [max_results |-> Some(p.max_results), regex |-> p.regex,
         case_sensitive |-> p.case_sensitive, whole_words |-> p.whole_words,
         match_path |-> p.match_path, files_only |-> p.files_only,
         folders_only |-> p.folders_only, path_filter |-> p.path_filter,
         include_name |-> TRUE, include_full_path |-> TRUE,
         include_size |-> p.include_size, include_extension |-> p.include_extension,
         include_date_modified |-> p.include_date_modified,
         sort_by |-> Some(p.sort_by), sort_ascending |-> p.sort_ascending,
         timeout |-> p.timeout])

SearchTools ==
    {"search_files", "search_folders", "search_by_extension", "search_by_size",
     "search_recent_files", "advanced_search"}

\* json.dumps: the document the returned text denotes.  A key None of a
\* dict becomes the key null, a str stays a string, an int becomes a number.
JsonKey(k) == IF k = NoneVal THEN <<"n", "u", "l", "l">> ELSE k[2]

JsonValue(v) ==
    CASE v[1] = "str" -> <<"string", v[2]>>
      [] v[1] = "int" -> <<"number", v[2]>>
      [] v[1] = "None" -> <<"null">>
      [] v[1] = "list" -> <<"array", [i \in 1..Len(v[2]) |-> <<"string", v[2][i]>>]>>

JsonObject(row) ==
    [k \in {JsonKey(x) : x \in DOMAIN row} |->
        JsonValue(row[CHOOSE x \in DOMAIN row : JsonKey(x) = k])]

Dumps(results) == [i \in 1..Len(results) |-> JsonObject(results[i])]

\* A tool whose handler catches RuntimeError only.
ToolReplyCatchesRuntimeError(tool, a, o) ==
    IF o.kind = "raise"
    THEN IF o.exc = "RuntimeError"
         THEN <<"json", "object", [error |-> o.message]>>
         ELSE <<"raise", o.exc, o.message>>
    ELSE IF tool = "get_result_count"
         THEN <<"json", "object", [query |-> a.query, count |-> o.value]>>
    ELSE IF tool = "get_everything_version"
         THEN <<"json", "object", [version |-> o.value]>>
    ELSE <<"json", "array", Dumps(o.value)>>

\* What a tool returns for the outcome o of its call: the text of the
\* result, or of {"error": str(e)} for every exception.
ToolReply(tool, a, o) ==
    IF o.kind = "raise" THEN <<"json", "object", [error |-> o.message]>>
    ELSE IF tool = "get_result_count"
         THEN <<"json", "object", [query |-> a.query, count |-> o.value]>>
    ELSE IF tool = "get_everything_version"
         THEN <<"json", "object", [version |-> o.value]>>
    ELSE <<"json", "array", Dumps(o.value)>>

Tools == SearchTools \cup {"get_result_count", "get_everything_version"}

\* The argument vector of the method a tool calls.
ToolCmd(tool, path, a) ==
    IF tool \in SearchTools THEN SearchCmd(path, a)
    ELSE IF tool = "get_result_count" THEN <<path, "-get-result-count", a.query>>
    ELSE <<path, "-version">>

\* A tool returns.
ToolLeave(tool, a, res, text, o) ==
    /\ pc' = "done"
    /\ op' = tool
    /\ cfg' = DefaultConfig
    /\ cmd' = <<>>
    /\ overdue' = FALSE
    /\ result' = res
    /\ csv_output' = text
    /\ outcome' = o
    /\ reply' = ToolReply(tool, a, o)

\* A tool from its entry to subprocess.run: get_everything_search(), then
\* the call on the handle.  An exception of either one ends the tool in its
\* handler; es_instance is assigned only when the constructor returns.
ToolEnter(tool, call) ==
    \E exists \in BOOLEAN :
       LET es == get_everything_search(es_path, exists)
       IN  /\ given' = IF es_path = NoPath
                       THEN Some([arg |-> None, exists |-> exists]) ELSE given
           /\ es_path' = IF es.kind = "return" THEN es.value ELSE es_path
           /\ IF es.kind = "raise"
              THEN ToolLeave(tool, DefaultConfig, NoResult, <<>>, es)
              ELSE IF call.kind = "raise"
              THEN ToolLeave(tool, DefaultConfig, NoResult, <<>>, call)
              ELSE /\ pc' = "running"
                   /\ op' = tool
                   /\ cfg' = call.value
                   /\ cmd' = ToolCmd(tool, es.value, call.value)
                   /\ overdue' = FALSE
                   /\ result' = NoResult
                   /\ csv_output' = <<>>
                   /\ outcome' = NoOutcome
                   /\ reply' = NoReply

ToolSearchFiles ==
    /\ pc \in {"new", "idle"}
    /\ \E p \in SearchFilesArgs : ToolEnter("search_files", SearchFilesTool(p))

ToolSearchFolders ==
    /\ pc \in {"new", "idle"}
    /\ \E p \in SearchFoldersArgs : ToolEnter("search_folders", SearchFoldersTool(p))

ToolSearchByExtension ==
    /\ pc \in {"new", "idle"}
    /\ \E p \in SearchByExtensionArgs :
          ToolEnter("search_by_extension", SearchByExtensionTool(p))

ToolSearchBySize ==
    /\ pc \in {"new", "idle"}
    /\ \E p \in SearchBySizeArgs : ToolEnter("search_by_size", SearchBySizeTool(p))

ToolSearchRecentFiles ==
    /\ pc \in {"new", "idle"}
    /\ \E p \in SearchRecentFilesArgs :
          ToolEnter("search_recent_files", SearchRecentFilesTool(p))

ToolAdvancedSearch ==
    /\ pc \in {"new", "idle"}
    /\ \E p \in AdvancedSearchArgs : ToolEnter("advanced_search", AdvancedSearchTool(p))

ToolGetResultCount ==
    /\ pc \in {"new", "idle"}
    /\ \E q \in Queries :
          ToolEnter("get_result_count", Return([DefaultConfig EXCEPT !.query = q]))

ToolGetEverythingVersion ==
    /\ pc \in {"new", "idle"}
    /\ ToolEnter("get_everything_version", Return(DefaultConfig))

\* es.exe exits inside a search tool: search() ends, the tool returns.
ToolSearchExit ==
    /\ pc = "running"
    /\ op \in SearchTools
    /\ \E rc \in ReturnCodes, out \in StdoutSamples, err \in StderrSamples :
          LET res == CompletedProcess(rc, out, err)
          IN  ToolLeave(op, cfg, res, IF rc = 0 THEN out ELSE <<>>, SearchOutcome(res))
    /\ UNCHANGED <<es_path, given>>

ToolSearchRunRaises ==
    /\ pc = "running"
    /\ op \in SearchTools
    /\ ToolLeave(op, cfg, NoResult, <<>>, SearchRunError(OSErrorText))
    /\ UNCHANGED <<es_path, given>>

ToolCountExit ==
    /\ pc = "running"
    /\ op = "get_result_count"
    /\ \E rc \in ReturnCodes, out \in CountTexts, err \in StderrSamples :
          LET res == CompletedProcess(rc, out, err)
          IN  ToolLeave(op, cfg, res, <<>>, GetResultCountOutcome(res))
    /\ UNCHANGED <<es_path, given>>

ToolCountRunRaises ==
    /\ pc = "running"
    /\ op = "get_result_count"
    /\ ToolLeave(op, cfg, NoResult, <<>>, Return(0))
    /\ UNCHANGED <<es_path, given>>

ToolVersionExit ==
    /\ pc = "running"
    /\ op = "get_everything_version"
    /\ \E rc \in ReturnCodes, out \in VersionSamples, err \in StderrSamples :
          LET res == CompletedProcess(rc, out, err)
          IN  ToolLeave(op, cfg, res, <<>>, GetVersionOutcome(res))
    /\ UNCHANGED <<es_path, given>>

ToolVersionRunRaises ==
    /\ pc = "running"
    /\ op = "get_everything_version"
    /\ ToolLeave(op, cfg, NoResult, <<>>, GetVersionRunError(OSErrorText))
    /\ UNCHANGED <<es_path, given>>

\* The client has the reply and may call the next tool.
ToolResume ==
    /\ pc = "done"
    /\ pc' = IF es_path = NoPath THEN "new" ELSE "idle"
    /\ op' = "none"
    /\ result' = NoResult
    /\ csv_output' = <<>>
    /\ outcome' = NoOutcome
    /\ reply' = NoReply
    /\ UNCHANGED <<es_path, cfg, cmd, overdue, given>>

NextAdapter ==
    \/ ToolSearchFiles
    \/ ToolSearchFolders
    \/ ToolSearchByExtension
    \/ ToolSearchBySize
    \/ ToolSearchRecentFiles
    \/ ToolAdvancedSearch
    \/ ToolGetResultCount
    \/ ToolGetEverythingVersion
    \/ ToolSearchExit
    \/ ToolSearchRunRaises
    \/ ToolCountExit
    \/ ToolCountRunRaises
    \/ ToolVersionExit
    \/ ToolVersionRunRaises
    \/ ToolResume

SpecAdapter == InitNew /\ [][NextAdapter]_vars

(***************************************************************************)
(* The claims about the argument list.  They are read in the states where  *)
(* search() has built cmd and is inside subprocess.run.                    *)
(***************************************************************************)
InSearch == pc = "running" /\ op = "search"

Tokens(s) == {s[i] : i \in 1..Len(s)}

\* C1: with regex disabled the argument list starts with the executable
\* path and has the query string as its second token, whole, for every
\* combination of the other options and also for the empty query.
C1_QueryIsSecondToken ==
    InSearch /\ ~cfg.regex =>
        /\ Len(cmd) >= 2
        /\ cmd[1] = es_path
        /\ cmd[2] = cfg.query

\* C1 happens: a search without regex, with the empty query and other options set.
C1_Witness ==
    /\ InSearch /\ ~cfg.regex /\ cfg.query = ""
    /\ cfg.case_sensitive /\ cfg.max_results # None

\* C2: with regex enabled the argument list has -regex as its second token
\* and the query string as its third, right after the executable path.
C2_RegexThenQuery ==
    InSearch /\ cfg.regex =>
        /\ Len(cmd) >= 3
        /\ cmd[1] = es_path
        /\ cmd[2] = "-regex"
        /\ cmd[3] = cfg.query

\* C2 happens: a regex search with a query and another option set.
C2_Witness == InSearch /\ cfg.regex /\ cfg.query = "*.txt" /\ cfg.whole_words

FileTypeStep(a) == FileTypeFilters(<<>>, a)

\* C3 as stated: with folders-only and files-only both true the argument
\* list holds /ad and does not hold /a-d, whatever the other options are,
\* and the file-type step never emits both markers.
C3_NoFilesMarkerInList ==
    InSearch =>
        /\ cfg.folders_only /\ cfg.files_only =>
              "/ad" \in Tokens(cmd) /\ "/a-d" \notin Tokens(cmd)
        /\ ~("/ad" \in Tokens(FileTypeStep(cfg)) /\ "/a-d" \in Tokens(FileTypeStep(cfg)))

\* C3 as amended: with folders-only and files-only both true the file-type
\* step emits /ad alone and the argument list holds /ad; the list holds a
\* token /a-d only when the attributes filter is "-d" (its token is /a
\* followed by the filter) or when the text of another argument is /a-d
\* itself; the file-type step never emits both markers.
C3_FoldersOnlyPrecedence ==
    InSearch =>
        /\ cfg.folders_only /\ cfg.files_only =>
              /\ FileTypeStep(cfg) = <<"/ad">>
              /\ "/ad" \in Tokens(cmd)
              /\ "/a-d" \in Tokens(cmd) =>
                    \/ cfg.attributes = Some("-d")
                    \/ "/a-d" \in {es_path, cfg.query}
                    \/ Some("/a-d") \in {cfg.path_filter, cfg.parent_path, cfg.parent}
        /\ ~("/ad" \in Tokens(FileTypeStep(cfg)) /\ "/a-d" \in Tokens(FileTypeStep(cfg)))

\* C3 happens: both flags set together with the attributes filter "-d".
C3_Witness ==
    InSearch /\ cfg.folders_only /\ cfg.files_only /\ cfg.attributes = Some("-d")

\* The decimal text of the timeouts the model uses.
DecimalText(t) ==
    CASE t = 5000 -> "5000" [] t = 30000 -> "30000"
      [] t = 0 -> "0" [] t = 10 -> "10" [] t = 20 -> "20"

\* C4: the argument list ends with -csv, -timeout and the decimal text of
\* the timeout of the call, whatever the other arguments are.
C4_EndsWithCsvAndTimeout ==
    InSearch =>
        /\ Len(cmd) >= 3
        /\ SubSeq(cmd, Len(cmd) - 2, Len(cmd))
              = <<"-csv", "-timeout", DecimalText(cfg.timeout)>>

\* C4 happens: a timeout other than the default, with the last include flag set.
C4_Witness == InSearch /\ cfg.timeout = 30000 /\ cfg.include_attributes

IncludeToken ==
    [include_name |-> "-name", include_path |-> "-path-column",
     include_full_path |-> "-full-path-and-name",
     include_extension |-> "-extension", include_size |-> "-size",
     include_date_created |-> "-date-created",
     include_date_modified |-> "-date-modified",
     include_date_accessed |-> "-date-accessed",
     include_attributes |-> "-attributes"]

\* C5: each include flag contributes exactly one occurrence of its own
\* token when true and none when false, whatever the other arguments are:
\* the list has as many occurrences of the token as the list built from the
\* same arguments with the flag false, plus one when the flag is true.
C5_IncludeFlagOneToken ==
    InSearch =>
        \A f \in DOMAIN IncludeToken :
            Count(IncludeToken[f], cmd)
              = Count(IncludeToken[f], SearchCmd(es_path, [cfg EXCEPT ![f] = FALSE]))
                  + (IF cfg[f] THEN 1 ELSE 0)

\* C5 happens: include flags set while the query is itself the text -name.
C5_Witness ==
    /\ InSearch /\ cfg.query = "-name" /\ cfg.include_name
    /\ cfg.include_size /\ cfg.include_date_accessed

\* The documented mapping, step by step.  A filter or a sort field "is
\* present" when it is neither None nor the empty string.
DocFlag(b, tok) == IF b THEN <<tok>> ELSE <<>>

DocPair(flag, o) == IF o # None /\ o # Some("") THEN <<flag, o[1]>> ELSE <<>>

DocMapping(path, a) ==
    <<path>>
    \o (IF a.regex THEN <<"-regex", a.query>> ELSE <<a.query>>)
    \o DocFlag(a.case_sensitive, "-case") \o DocFlag(a.whole_words, "-whole-words")
    \o DocFlag(a.match_path, "-match-path") \o DocFlag(a.match_diacritics, "-diacritics")
    \o (IF a.max_results # None THEN <<"-max-results", Str(a.max_results[1])>> ELSE <<>>)
    \o (IF a.offset > 0 THEN <<"-offset", Str(a.offset)>> ELSE <<>>)
    \o DocPair("-path", a.path_filter)
    \o DocPair("-parent-path", a.parent_path)
    \o DocPair("-parent", a.parent)
    \o (IF a.folders_only THEN <<"/ad">> ELSE IF a.files_only THEN <<"/a-d">> ELSE <<>>)
    \o (IF a.attributes # None /\ a.attributes # Some("")
        THEN <<"/a" \o a.attributes[1]>> ELSE <<>>)
    \o (IF a.sort_by # None /\ a.sort_by # Some("")
        THEN <<"-sort", a.sort_by[1] \o (IF a.sort_ascending THEN "-ascending"
                                                              ELSE "-descending")>>
        ELSE <<>>)
    \o DocFlag(a.include_name, "-name") \o DocFlag(a.include_path, "-path-column")
    \o DocFlag(a.include_full_path, "-full-path-and-name")
    \o DocFlag(a.include_extension, "-extension") \o DocFlag(a.include_size, "-size")
    \o DocFlag(a.include_date_created, "-date-created")
    \o DocFlag(a.include_date_modified, "-date-modified")
    \o DocFlag(a.include_date_accessed, "-date-accessed")
    \o DocFlag(a.include_attributes, "-attributes")
    \o <<"-csv", "-timeout", Str(a.timeout)>>

\* C6: the argument list is the concatenation of the tokens of steps 1 to
\* 11 of the documented mapping, in that order, and nothing else.
C6_DocumentedOrder == InSearch => cmd = DocMapping(es_path, cfg)

\* C6 happens: tokens of an early, a middle and a late step in one list.
C6_Witness ==
    /\ InSearch /\ cfg.offset > 0
    /\ cfg.attributes = Some("RH") /\ cfg.sort_by = Some("size")

\* The positions of the list at which a flag is followed by a value.
PairAt(flag, value) == {i \in 1..(Len(cmd) - 1) : cmd[i] = flag /\ cmd[i + 1] = value}

\* C17: -max-results followed by the decimal text of the value is in the list
\* exactly when max_results is set, 0 included; -offset followed by the
\* decimal text of the offset exactly when the offset is above zero; the
\* first pair stands before the second when both are there.
C17_LimitAndOffsetPairs ==
    InSearch =>
        /\ Count("-max-results", cmd) = IF cfg.max_results # None THEN 1 ELSE 0
        /\ cfg.max_results # None =>
               PairAt("-max-results", DecimalText(cfg.max_results[1])) # {}
        /\ Count("-offset", cmd) = IF cfg.offset > 0 THEN 1 ELSE 0
        /\ cfg.offset > 0 => PairAt("-offset", DecimalText(cfg.offset)) # {}
        /\ cfg.max_results # None /\ cfg.offset > 0 =>
               \A i \in PairAt("-max-results", DecimalText(cfg.max_results[1])) :
                  \A j \in PairAt("-offset", DecimalText(cfg.offset)) : i + 1 < j

C17_Witness ==
    /\ InSearch /\ cfg.max_results = Some(0) /\ cfg.offset = 10
    /\ PairAt("-max-results", "0") # {} /\ PairAt("-offset", "10") # {}

\* C18: with a sort field, -sort is followed by the field joined to
\* -ascending or -descending as sort_ascending says; with none (or an empty
\* one) there is no -sort and the list is the same for both values of
\* sort_ascending.
C18_SortTokens ==
    InSearch =>
        IF Truthy(cfg.sort_by)
        THEN /\ Count("-sort", cmd) = 1
             /\ PairAt("-sort", cfg.sort_by[1] \o
                    (IF cfg.sort_ascending THEN "-ascending" ELSE "-descending")) # {}
        ELSE /\ "-sort" \notin Tokens(cmd)
             /\ cmd = SearchCmd(es_path, [cfg EXCEPT !.sort_ascending = ~@])

C18_Witness ==
    /\ InSearch /\ cfg.sort_by = Some("size") /\ ~cfg.sort_ascending
    /\ PairAt("-sort", "size-descending") # {}

(***************************************************************************)
(* The claims about the outcome of a call.                                 *)
(***************************************************************************)
SearchDone == pc = "done" /\ op = "search"

CountDone == pc = "done" /\ op = "get_result_count"

\* The message of an exception holds the text among the pieces it was
\* formatted from.
Contains(message, text) == \E i \in 1..Len(message) : message[i] = text

\* C7: when es.exe exits with a non-zero code, search() raises an
\* execution-failure error whose message holds the captured standard error,
\* and returns no result set, whatever the standard output held.
C7_NonZeroExitRaises ==
    SearchDone /\ result.returncode # 0 =>
        /\ outcome.kind = "raise"
        /\ outcome.exc = "RuntimeError"
        /\ Contains(outcome.message, result.stderr)

\* C7 happens: a non-zero exit with rows on standard output and with and
\* without text on standard error.
C7_Witness ==
    /\ SearchDone /\ result.returncode = 1
    /\ result.stdout = <<"a", "\n", "a">>
    /\ result.stderr = ""
    /\ outcome.kind = "raise"

\* C8: once es.exe has run longer than the timeout of the call, search()
\* has been aborted and has raised the timeout error.
C8_OverdueSearchIsAborted ==
    op = "search" /\ overdue =>
        /\ pc = "done"
        /\ outcome.kind = "raise"
        /\ outcome.exc = "TimeoutError"

\* The trimmed text is a plain decimal integer: digits, after an optional minus.
PlainInteger(t) ==
    LET b == IF t # <<>> /\ Head(t) = "-" THEN Tail(t) ELSE t
    IN  b # <<>> /\ \A i \in 1..Len(b) : b[i] \in DecimalDigits

PlainValue(t) ==
    IF Head(t) = "-" THEN 0 - DecimalValue(Tail(t)) ELSE DecimalValue(t)

\* C9: get_result_count() never raises.  It returns 0 when es.exe exits
\* non-zero, when the standard output is no integer (here: a text without
\* the digit separator "_" that is not a plain decimal integer) and when
\* subprocess.run itself fails; on exit code 0 with an integer as the
\* trimmed standard output it returns that integer.
C9_CountNeverRaises ==
    CountDone =>
        LET t == Strip(result.stdout)
        IN  /\ outcome.kind = "return"
            /\ result.returncode # 0 => outcome.value = 0
            /\ result.returncode = 0 /\ PlainInteger(t) => outcome.value = PlainValue(t)
            /\ result.returncode = 0 /\ ~PlainInteger(t) /\ "_" \notin Tokens(t)
                  => outcome.value = 0

\* C9 happens: exit code 0 and an integer between white space.
C9_Witness ==
    /\ CountDone /\ result.returncode = 0
    /\ result.stdout = <<"4", "0", "\n">>
    /\ outcome = Return(40)

(***************************************************************************)
(* The claims about the constructor, export_results and the handle.        *)
(***************************************************************************)
\* C16: a constructor call for a path that does not exist raises
\* FileNotFoundError and leaves no handle; a call for a path that exists
\* gives a handle whose es_path is the path given, the default path when
\* none is given.
C16_ConstructorChecksPath ==
    given # None =>
        LET path == IF given[1].arg = None THEN DefaultEsPath ELSE given[1].arg[1]
        IN  IF given[1].exists
            THEN pc # "new" /\ es_path = path
            ELSE /\ pc = "new" /\ es_path = NoPath
                 /\ op = "__init__"
                 /\ outcome.kind = "raise"
                 /\ outcome.exc = "FileNotFoundError"
                 /\ Contains(outcome.message, path)

C16_Witness ==
    /\ given = Some([arg |-> Some("/custom/path/es.exe"), exists |-> FALSE])
    /\ pc = "new" /\ outcome.kind = "raise"

InExport == pc = "running" /\ op = "export_results"

ExportDone == pc = "done" /\ op = "export_results"

ExportToken(format) ==
    CASE format = "csv" -> "-export-csv" [] format = "txt" -> "-export-txt"

\* C19: export_results runs the executable with the query, the token
\* -export-<format> and the output file, in that order; it returns None only
\* when es.exe exits with code 0, and every non-zero exit raises an error
\* that carries the text of standard error.  With exit code 0 nothing is
\* raised; the one other failure is subprocess.run not starting es.exe.
C19_ExportInvocationAndOutcome ==
    /\ InExport =>
          /\ Len(cmd) >= 4
          /\ SubSeq(cmd, 1, 4) =
                 <<es_path, cfg.query, ExportToken(cfg.format), cfg.output_file>>
    /\ ExportDone =>
          /\ result.returncode # 0 =>
                /\ outcome.kind = "raise"
                /\ outcome.exc = "RuntimeError"
                /\ Contains(outcome.message, result.stderr)
          /\ outcome.kind = "return" =>
                result.returncode = 0 /\ outcome.value = NoneVal
          /\ result.returncode = 0 /\ outcome.kind = "raise" =>
                Contains(outcome.message, OSErrorText)

C19_Witness ==
    /\ ExportDone /\ result.returncode = 1
    /\ result.stderr = "Error 8: Everything IPC window not found"
    /\ outcome.kind = "raise"

\* C20: no call changes es_path of the handle; the argument vector of a
\* search is a function of es_path and the arguments of that call, and its
\* outcome a function of what subprocess.run gave that call.
C20_CallsAreStateless ==
    /\ [][es_path' = es_path]_vars
    /\ [](InSearch => cmd = SearchCmd(es_path, cfg))
    /\ [](SearchDone =>
             \/ outcome = SearchOutcome(result)
             \/ result = NoResult /\ outcome = SearchRunError(OSErrorText))

C20_Witness ==
    /\ SearchDone /\ es_path = "/custom/path/es.exe"
    /\ result.returncode = 1 /\ outcome.kind = "raise"

ToolDone == pc = "done" /\ op \in Tools

FilesOnlyWrappers == {"search_files", "search_by_extension", "search_by_size"}

\* C21: whatever options the caller forwards, the argument list of
\* search_files, search_by_extension and search_by_size holds /a-d and not
\* /ad, and the argument list of search_folders holds /ad.
C21_WrappersFixTheFileType ==
    pc = "running" =>
        /\ op \in FilesOnlyWrappers =>
              "/a-d" \in Tokens(cmd) /\ "/ad" \notin Tokens(cmd)
        /\ op = "search_folders" => "/ad" \in Tokens(cmd)

\* A tool has ended in the handler of the constructor's exception.
ConstructionFailed ==
    ToolDone /\ outcome.kind = "raise" /\ outcome.exc = "FileNotFoundError"

\* C22: the handle of the server is built lazily and at most once.  It is
\* unset until a tool's constructor call succeeds; once set, no tool
\* changes it, calls the constructor or fails in it; a tool that starts
\* without a handle calls the constructor, and when that fails the handle
\* stays unset for the next tool.
C22_LazyHandle ==
    /\ [](pc = "new" => es_path = NoPath)
    /\ [](pc \in {"idle", "running"} => es_path = DefaultEsPath)
    /\ [](es_path # NoPath => ~ConstructionFailed /\ given = Some([arg |-> None, exists |-> TRUE]))
    /\ [][/\ es_path # NoPath => es_path' = es_path /\ given' = given
          /\ es_path = NoPath /\ es_path' # NoPath =>
                pc = "new" /\ pc' = "running" /\ es_path' = DefaultEsPath
          /\ pc = "new" /\ pc' # "new" =>
                /\ given' # None
                /\ IF given'[1].exists
                   THEN es_path' = DefaultEsPath /\ pc' = "running"
                   ELSE es_path' = NoPath /\ ConstructionFailed'
          /\ ConstructionFailed => es_path' = NoPath /\ pc' = "new"]_vars

C22_Witness ==
    /\ ConstructionFailed /\ es_path = NoPath
    /\ given = Some([arg |-> None, exists |-> FALSE])
    /\ reply = <<"json", "object",
                 [error |-> <<"Everything Search executable not found at: ",
                              DefaultEsPath>>]>>

(***************************************************************************)
(* The parser alone: _parse_csv_output called on a text, as the tests of   *)
(* the repository call it.                                                 *)
(***************************************************************************)
InitParse ==
    /\ es_path = DefaultEsPath
    /\ pc = "idle"
    /\ op = "none"
    /\ cfg = DefaultConfig
    /\ cmd = <<>>
    /\ overdue = FALSE
    /\ result = NoResult
    /\ csv_output \in Texts
    /\ outcome = NoOutcome
    /\ given = Some([arg |-> None, exists |-> TRUE])
    /\ reply = NoReply

ParseCsvOutput ==
    /\ pc = "idle"
    /\ pc' = "done"
    /\ op' = "_parse_csv_output"
    /\ outcome' = parse_csv_output(csv_output)
    /\ UNCHANGED <<es_path, cfg, cmd, overdue, result, csv_output, given, reply>>

NextParse == ParseCsvOutput

SpecParse == InitParse /\ [][NextParse]_vars

ParseDone == pc = "done" /\ op = "_parse_csv_output"

\* C10: the parser never raises, whatever the text: a row shorter or longer
\* than the header and a Size that is no plain decimal number all give a
\* result set.
C10_ParserNeverRaises == ParseDone => outcome.kind = "return"

\* The rows csv.DictReader hands to the conversion loop for a text.
DataRows(text) ==
    LET lines == SplitLines(Strip(text), <<>>)
    IN  IF Strip(text) = <<>> \/ Len(lines) < 2 THEN <<>> ELSE DictReader(lines)

AllDecimal(s) == s # <<>> /\ \A i \in 1..Len(s) : s[i] \in DecimalDigits

\* C11: in every record the parser returns, the field of the column named
\* exactly Size is the integer value of its text when the text is non-empty
\* and all decimal digits, and the original string otherwise; the field of
\* every other column (size included) is the value the reader gave it.
C11_OnlySizeIsConverted ==
    ParseDone /\ outcome.kind = "return" =>
        LET raw == DataRows(csv_output)
        IN  /\ Len(outcome.value) = Len(raw)
            /\ \A i \in 1..Len(raw) :
                   /\ DOMAIN outcome.value[i] = DOMAIN raw[i]
                   /\ \A k \in DOMAIN raw[i] :
                          outcome.value[i][k] =
                              IF k = SizeKey /\ raw[i][k][1] = "str" /\ AllDecimal(raw[i][k][2])
                              THEN IntVal(DecimalValue(raw[i][k][2]))
                              ELSE raw[i][k]

C11_Witness ==
    /\ ParseDone
    /\ csv_output = <<"Size", "\n", "7", "\n", "a">>
    /\ outcome = Return(<<(SizeKey :> IntVal(7)), (SizeKey :> StrVal(<<"a">>))>>)

\* C12: for an input that is empty, only whitespace, or a single line once
\* trimmed, the parser returns the empty list and raises nothing.
C12_NoDataRowsGiveEmptyList ==
    ParseDone /\ (Strip(csv_output) = <<>> \/ "\n" \notin Tokens(Strip(csv_output)))
        => outcome = Return(<<>>)

C12_Witness ==
    /\ ParseDone
    /\ csv_output \in {<<" ", "\n", " ">>, <<"a", ",", "Size", "\n">>}
    /\ outcome = Return(<<>>)

\* A text cut at every occurrence of a separator.
RECURSIVE SplitAt(_, _, _)
SplitAt(s, sep, piece) ==
    IF s = <<>> THEN <<piece>>
    ELSE IF Head(s) = sep THEN <<piece>> \o SplitAt(Tail(s), sep, <<>>)
    ELSE SplitAt(Tail(s), sep, Append(piece, Head(s)))

TableLines(text) == SplitAt(Strip(text), "\n", <<>>)

HeaderColumns(text) == SplitAt(Head(TableLines(text)), ",", <<>>)

NonEmptyRows(text) == SelectSeq(Tail(TableLines(text)), LAMBDA l : l # <<>>)

\* A table without quoting: a header of distinct column names and at least
\* one more line.
PlainTable(text) ==
    /\ "\"" \notin Tokens(text)
    /\ Len(TableLines(text)) >= 2
    /\ \A i, j \in 1..Len(HeaderColumns(text)) :
           i # j => HeaderColumns(text)[i] # HeaderColumns(text)[j]

\* The records hold the rows in order, each header column mapped to the
\* field at its position in the row.
RowsAligned(text, records) ==
    /\ Len(records) = Len(NonEmptyRows(text))
    /\ \A i \in 1..Len(records) :
           LET fields == SplitAt(NonEmptyRows(text)[i], ",", <<>>)
           IN  \A j \in 1..Len(HeaderColumns(text)) :
                  j <= Len(fields) =>
                      LET k == StrVal(HeaderColumns(text)[j])
                      IN  /\ k \in DOMAIN records[i]
                          /\ \/ records[i][k] = StrVal(fields[j])
                             \/ /\ AllDecimal(fields[j])
                                /\ records[i][k] = IntVal(DecimalValue(fields[j]))

\* C13: for a header and n non-empty data rows the parser returns exactly n
\* records in row order, the i-th record mapping each header column to the
\* field at the same position of the i-th row, whatever the other rows'
\* lengths are.
C13_OneRecordPerRow ==
    ParseDone /\ PlainTable(csv_output) =>
        outcome.kind = "return" /\ RowsAligned(csv_output, outcome.value)

\* C14: the key set of every record the parser returns is exactly the set of
\* the header's column names.
C14_KeysAreHeaderColumns ==
    ParseDone /\ outcome.kind = "return" /\ outcome.value # <<>> =>
        LET header == Head(CsvReader(SplitLines(Strip(csv_output), <<>>)))
        IN  \A i \in 1..Len(outcome.value) :
               DOMAIN outcome.value[i] = {StrVal(h) : h \in Tokens(header)}
====
